---- MODULE Spec2Model ----
(***************************************************************************)
(* Model of lib/classes/many_to_many.py: the Author, Magazine and Article  *)
(* classes, the two class-level registries (Article.all and                *)
(* Magazine.all_magazines) and the relationship queries that scan them.    *)
(*                                                                         *)
(* Objects live in three heaps (authors, magazines, articles); an object's *)
(* identity is its index in its heap.  A Python value is a record          *)
(* [type, str, id, items]: a str carries its characters (as code points),  *)
(* an int its value, an object reference the identity of the object, a     *)
(* list its items.                                                         *)
(***************************************************************************)
EXTENDS Integers, Sequences, FiniteSets, TLC

\* Bounds of the model: how many objects of each class the client creates.
MaxAuthors == 2
MaxMagazines == 2
MaxArticles == 3

\* Limits written in the source.
TitleMin == 5
TitleMax == 50
NameMin == 2
NameMax == 16
ContribMin == 2

VARIABLES authors, magazines, articles, Article_all, all_magazines, op, ret

vars == <<authors, magazines, articles, Article_all, all_magazines, op, ret>>
state == <<authors, magazines, articles, Article_all, all_magazines>>

----------------------------------------------------------------------------
\* Sequences and strings (a str is the sequence of its code points).

Range(s) == {s[i] : i \in 1..Len(s)}

RECURSIVE Rep(_, _)
Rep(c, n) == IF n = 0 THEN <<>> ELSE <<c>> \o Rep(c, n - 1)

\* Every list holding each element of S once: the orders in which Python may
\* iterate over set(S).
SetToLists(S) == {l \in [1..Cardinality(S) -> S] : Range(l) = S}

\* The characters str.strip() removes: the code points for which
\* str.isspace() holds.
Whitespace ==
  (9..13) \cup (28..32) \cup {133, 160, 5760} \cup (8192..8202)
    \cup {8232, 8233, 8239, 8287, 12288}

RECURSIVE LStrip(_)
LStrip(s) == IF s # <<>> /\ Head(s) \in Whitespace THEN LStrip(Tail(s)) ELSE s

RECURSIVE RStrip(_)
RStrip(s) ==
  IF s # <<>> /\ s[Len(s)] \in Whitespace THEN RStrip(SubSeq(s, 1, Len(s) - 1)) ELSE s

\* str.strip()
Strip(s) == RStrip(LStrip(s))

----------------------------------------------------------------------------
\* Python values.

Str(s) == [type |-> "str", str |-> s, id |-> 0, items |-> <<>>]
Num(n) == [type |-> "int", str |-> <<>>, id |-> n, items |-> <<>>]
None == [type |-> "NoneType", str |-> <<>>, id |-> 0, items |-> <<>>]
Ref(cls, i) == [type |-> cls, str |-> <<>>, id |-> i, items |-> <<>>]
List(l) == [type |-> "list", str |-> <<>>, id |-> 0, items |-> l]

isinstance(v, cls) == v.type = cls

\* The outcome of a call: the value returned, or the exception raised.
Return(v) == [exc |-> "", value |-> v]
Raise(e) == [exc |-> e, value |-> None]

Call(name, self, args) == [name |-> name, self |-> self, args |-> args]

----------------------------------------------------------------------------
\* The strings of the example usage at the end of the module.

\* "Melki"
Melki == <<77, 101, 108, 107, 105>>
\* "Alare"
Alare == <<65, 108, 97, 114, 101>>
\* "Tech Today"
TechToday == <<84, 101, 99, 104, 32, 84, 111, 100, 97, 121>>
\* "Health & Wellness"
HealthWellness ==
  <<72, 101, 97, 108, 116, 104, 32, 38, 32, 87, 101, 108, 108, 110, 101, 115, 115>>
\* "Technology"
Technology == <<84, 101, 99, 104, 110, 111, 108, 111, 103, 121>>
\* "Health"
Health == <<72, 101, 97, 108, 116, 104>>
\* "The Future of AI"
FutureOfAI ==
  <<84, 104, 101, 32, 70, 117, 116, 117, 114, 101, 32, 111, 102, 32, 65, 73>>
\* "Exploring Robotics"
ExploringRobotics ==
  <<69, 120, 112, 108, 111, 114, 105, 110, 103, 32, 82, 111, 98, 111, 116, 105, 99, 115>>
\* "Healthy Living Tips"
HealthyLivingTips ==
  <<72, 101, 97, 108, 116, 104, 121, 32, 76, 105, 118, 105, 110, 103, 32, 84, 105, 112, 115>>

----------------------------------------------------------------------------
\* The values the client passes.

NotAString == Num(7)

AuthorNames == {Str(Melki), NotAString}
NewAuthorNames == {Str(Alare)}

MagazineNames == {Str(Rep(110, NameMax)), NotAString}
MagazineCategories == {Str(<<32, 32>>), NotAString}

NewNames ==
  {Str(Rep(110, NameMin - 1)), Str(Rep(110, NameMin)), Str(Rep(110, NameMax)),
   Str(Rep(110, NameMax + 1)), NotAString}
\* "\r Health\t\u3000": a category with whitespace around it
PaddedHealth == <<13, 32>> \o Health \o <<9, 12288>>
\* "", " \t\r\x0c\x1f\xa0\u3000", the padded category, 7
NewCategories ==
  {Str(<<>>), Str(<<32, 9, 13, 12, 31, 160, 12288>>), Str(PaddedHealth), NotAString}

\* Titles at and just outside the limits.  To keep the registry small every
\* author offers titles of one valid length: the first author the shortest,
\* every other author the longest.
ShortTitle == Str(Rep(116, TitleMin))
LongTitle == Str(Rep(116, TitleMax))
TooShort == Str(Rep(116, TitleMin - 1))
BadTitles == {TooShort, Str(Rep(116, TitleMax + 1)), NotAString}
TitleOf(author) == IF author = Ref("Author", 1) THEN ShortTitle ELSE LongTitle

AuthorRefs == {Ref("Author", i) : i \in 1..Len(authors)}
MagazineRefs == {Ref("Magazine", i) : i \in 1..Len(magazines)}

\* What a client may pass where an object is expected.
Authors == AuthorRefs \cup {Str(Melki)}
Magazines == MagazineRefs \cup {None}

----------------------------------------------------------------------------
\* The registries as the class bodies create them (lines 6 and 91), and as
\* the example usage at the end of the module leaves them on import.

InitFresh ==
  /\ authors = <<>>
  /\ magazines = <<>>
  /\ articles = <<>>
  /\ Article_all = <<>>
  /\ all_magazines = <<>>

InitExample ==
  /\ authors = <<[_name |-> Str(Melki)], [_name |-> Str(Alare)]>>
  /\ magazines = <<[_name |-> Str(TechToday), _category |-> Str(Technology)],
                   [_name |-> Str(HealthWellness), _category |-> Str(Health)]>>
  /\ articles =
       <<[author |-> Ref("Author", 1), magazine |-> Ref("Magazine", 1),
          title |-> Str(FutureOfAI)],
         [author |-> Ref("Author", 1), magazine |-> Ref("Magazine", 1),
          title |-> Str(ExploringRobotics)],
         [author |-> Ref("Author", 2), magazine |-> Ref("Magazine", 2),
          title |-> Str(HealthyLivingTips)]>>
  /\ Article_all = <<1, 2, 3>>
  /\ all_magazines = <<1, 2>>

Init ==
  /\ InitFresh \/ InitExample
  /\ op = Call("import", None, <<>>)
  /\ ret = Return(None)

----------------------------------------------------------------------------
\* Constructors.

\* Variants of the operations below, each with one plausible slip; the
\* properties at the end of the module must tell them from the code.

\* Article.__init__ with `len(title) < 50`
Article_init_lt(author, magazine, title) ==
  IF \/ ~isinstance(author, "Author")
     \/ ~isinstance(magazine, "Magazine")
     \/ ~isinstance(title, "str")
     \/ ~(TitleMin <= Len(title.str) /\ Len(title.str) < TitleMax)
  THEN /\ ret' = Raise("ValueError")
       /\ UNCHANGED state
  ELSE /\ Len(articles) < MaxArticles
       /\ articles' =
            Append(articles, [author |-> author, magazine |-> magazine, title |-> title])
       /\ Article_all' = Append(Article_all, Len(articles) + 1)
       /\ ret' = Return(Ref("Article", Len(articles) + 1))
       /\ UNCHANGED <<authors, magazines, all_magazines>>

\* Article.__init__ registering the article before it validates the title
Article_init_early(author, magazine, title) ==
  IF ~isinstance(author, "Author") \/ ~isinstance(magazine, "Magazine")
  THEN /\ ret' = Raise("ValueError")
       /\ UNCHANGED state
  ELSE /\ Len(articles) < MaxArticles
       /\ articles' =
            Append(articles, [author |-> author, magazine |-> magazine, title |-> title])
       /\ Article_all' = Append(Article_all, Len(articles) + 1)
       /\ ret' = IF \/ ~isinstance(title, "str")
                    \/ ~(TitleMin <= Len(title.str) /\ Len(title.str) <= TitleMax)
                 THEN Raise("ValueError")
                 ELSE Return(Ref("Article", Len(articles) + 1))
       /\ UNCHANGED <<authors, magazines, all_magazines>>

\* Magazine.__init__ with all_magazines.insert(0, self)
Magazine_init_front(name, category) ==
  IF ~isinstance(name, "str") \/ ~isinstance(category, "str")
  THEN /\ ret' = Raise("ValueError")
       /\ UNCHANGED state
  ELSE /\ Len(magazines) < MaxMagazines
       /\ magazines' = Append(magazines, [_name |-> name, _category |-> category])
       /\ all_magazines' = <<Len(magazines) + 1>> \o all_magazines
       /\ ret' = Return(Ref("Magazine", Len(magazines) + 1))
       /\ UNCHANGED <<authors, articles, Article_all>>

\* Magazine.__init__ without the registration
Magazine_init_unregistered(name, category) ==
  IF ~isinstance(name, "str") \/ ~isinstance(category, "str")
  THEN /\ ret' = Raise("ValueError")
       /\ UNCHANGED state
  ELSE /\ Len(magazines) < MaxMagazines
       /\ magazines' = Append(magazines, [_name |-> name, _category |-> category])
       /\ ret' = Return(Ref("Magazine", Len(magazines) + 1))
       /\ UNCHANGED <<authors, articles, Article_all, all_magazines>>

\* Author.__init__
Author_init(name) ==
  IF ~isinstance(name, "str")
  THEN /\ ret' = Raise("ValueError")
       /\ UNCHANGED state
  ELSE /\ Len(authors) < MaxAuthors
       /\ authors' = Append(authors, [_name |-> name])
       /\ ret' = Return(Ref("Author", Len(authors) + 1))
       /\ UNCHANGED <<magazines, articles, Article_all, all_magazines>>

\* Magazine.__init__
Magazine_init(name, category) ==
  IF ~isinstance(name, "str") \/ ~isinstance(category, "str")
  THEN /\ ret' = Raise("ValueError")
       /\ UNCHANGED state
  ELSE /\ Len(magazines) < MaxMagazines
       /\ magazines' = Append(magazines, [_name |-> name, _category |-> category])
       /\ all_magazines' = Append(all_magazines, Len(magazines) + 1)
       /\ ret' = Return(Ref("Magazine", Len(magazines) + 1))
       /\ UNCHANGED <<authors, articles, Article_all>>

\* Article.__init__
Article_init(author, magazine, title) ==
  IF \/ ~isinstance(author, "Author")
     \/ ~isinstance(magazine, "Magazine")
     \/ ~isinstance(title, "str")
     \/ ~(TitleMin <= Len(title.str) /\ Len(title.str) <= TitleMax)
  THEN /\ ret' = Raise("ValueError")
       /\ UNCHANGED state
  ELSE /\ Len(articles) < MaxArticles
       /\ articles' =
            Append(articles, [author |-> author, magazine |-> magazine, title |-> title])
       /\ Article_all' = Append(Article_all, Len(articles) + 1)
       /\ ret' = Return(Ref("Article", Len(articles) + 1))
       /\ UNCHANGED <<authors, magazines, all_magazines>>

\* Author.add_article
Author_add_article(self, magazine, title) == Article_init(self, magazine, title)

NewAuthor ==
  \E name \in AuthorNames :
    /\ Author_init(name)
    /\ op' = Call("Author", None, <<name>>)

NewMagazine ==
  \E name \in MagazineNames, category \in MagazineCategories :
    /\ Magazine_init(name, category)
    /\ op' = Call("Magazine", None, <<name, category>>)

NewArticle ==
  \E author \in Authors, magazine \in Magazines :
    \E title \in {TitleOf(author), TooShort} :
    /\ Article_init(author, magazine, title)
    /\ op' = Call("Article", None, <<author, magazine, title>>)

AddArticle ==
  \E self \in AuthorRefs, magazine \in Magazines :
    \E title \in {TitleOf(self)} \cup BadTitles :
    /\ Author_add_article(self, magazine, title)
    /\ op' = Call("add_article", self, <<magazine, title>>)

----------------------------------------------------------------------------
\* Property setters.

\* Author.name setter that assigns
Author_name_set_assigns(self, value) ==
  /\ authors' = [authors EXCEPT ![self.id]._name = value]
  /\ ret' = Return(None)
  /\ UNCHANGED <<magazines, articles, Article_all, all_magazines>>

\* Magazine.category setter without the strip()
Magazine_category_set_unstripped(self, value) ==
  IF ~isinstance(value, "str") \/ Len(value.str) = 0
  THEN /\ ret' = Raise("ValueError")
       /\ UNCHANGED state
  ELSE /\ magazines' = [magazines EXCEPT ![self.id]._category = value]
       /\ ret' = Return(None)
       /\ UNCHANGED <<authors, articles, Article_all, all_magazines>>

\* Author.name setter
Author_name_set(self, value) ==
  /\ ret' = Raise("AttributeError")
  /\ UNCHANGED state

\* Magazine.name setter
Magazine_name_set(self, value) ==
  IF ~isinstance(value, "str") \/ ~(NameMin <= Len(value.str) /\ Len(value.str) <= NameMax)
  THEN /\ ret' = Raise("ValueError")
       /\ UNCHANGED state
  ELSE /\ magazines' = [magazines EXCEPT ![self.id]._name = value]
       /\ ret' = Return(None)
       /\ UNCHANGED <<authors, articles, Article_all, all_magazines>>

\* Magazine.category setter
Magazine_category_set(self, value) ==
  IF ~isinstance(value, "str") \/ Len(Strip(value.str)) = 0
  THEN /\ ret' = Raise("ValueError")
       /\ UNCHANGED state
  ELSE /\ magazines' = [magazines EXCEPT ![self.id]._category = value]
       /\ ret' = Return(None)
       /\ UNCHANGED <<authors, articles, Article_all, all_magazines>>

SetAuthorName ==
  \E self \in AuthorRefs, value \in NewAuthorNames :
    /\ Author_name_set(self, value)
    /\ op' = Call("Author.name=", self, <<value>>)

SetMagazineName ==
  \E self \in MagazineRefs, value \in NewNames :
    /\ Magazine_name_set(self, value)
    /\ op' = Call("Magazine.name=", self, <<value>>)

SetMagazineCategory ==
  \E self \in MagazineRefs, value \in NewCategories :
    /\ Magazine_category_set(self, value)
    /\ op' = Call("Magazine.category=", self, <<value>>)

----------------------------------------------------------------------------
\* Queries.  A query that builds its result with list(set(...)) may return the
\* elements in any order, so it is modelled by the set of its possible results.

\* The list of the objects of class cls with the identities ids.
Refs(cls, ids) == [k \in 1..Len(ids) |-> Ref(cls, ids[k])]

\* Author.articles without the filter
Author_articles_unfiltered(self) == Refs("Article", Article_all)

\* Author.articles
Author_articles(self) ==
  Refs("Article", SelectSeq(Article_all, LAMBDA i : articles[i].author = self))

\* Author.magazines
Author_magazines(self) ==
  SetToLists({articles[a.id].magazine : a \in Range(Author_articles(self))})

\* Author.topic_areas
Author_topic_areas(self) ==
  UNION {IF mags = <<>>
         THEN {None}
         ELSE {List(l) : l \in SetToLists({magazines[m.id]._category : m \in Range(mags)})}
         : mags \in Author_magazines(self)}

\* Magazine.articles
Magazine_articles(self) ==
  Refs("Article", SelectSeq(Article_all, LAMBDA i : articles[i].magazine = self))

\* Magazine.contributors
Magazine_contributors(self) ==
  SetToLists({articles[a.id].author : a \in Range(Magazine_articles(self))})

\* Magazine.article_titles
Magazine_article_titles(self) ==
  LET found == Magazine_articles(self)
      titles == [k \in 1..Len(found) |-> articles[found[k].id].title]
  IN IF titles = <<>> THEN None ELSE List(titles)

\* The loop `for x in ...: counts[key] += 1` over a dict, for the keys met in
\* turn: the counts after it, or the KeyError of a key the dict does not hold.
RECURSIVE Tally(_, _)
Tally(counts, keys) ==
  IF keys = <<>> THEN [exc |-> "", counts |-> counts]
  ELSE IF Head(keys) \notin DOMAIN counts THEN [exc |-> "KeyError", counts |-> counts]
  ELSE Tally([counts EXCEPT ![Head(keys)] = @ + 1], Tail(keys))

\* The counting loop of Magazine.contributing_authors
AuthorCounts(self, order) ==
  LET found == Magazine_articles(self)
  IN Tally([a \in Range(order) |-> 0],
           [k \in 1..Len(found) |-> articles[found[k].id].author]).counts

\* Magazine.contributing_authors with `count >= 2`
Magazine_contributing_authors_ge(self) ==
  {LET author_counts == AuthorCounts(self, order)
       result == SelectSeq(order, LAMBDA a : author_counts[a] >= ContribMin)
   IN IF result = <<>> THEN None ELSE List(result)
   : order \in Magazine_contributors(self)}

\* Magazine.contributing_authors
Magazine_contributing_authors(self) ==
  {LET author_counts == AuthorCounts(self, order)
       result == SelectSeq(order, LAMBDA a : author_counts[a] > ContribMin)
   IN IF result = <<>> THEN None ELSE List(result)
   : order \in Magazine_contributors(self)}

\* A max that keeps the last of the keys with the greatest count
RECURSIVE MaxKey_last(_, _, _)
MaxKey_last(best, keys, counts) ==
  IF keys = <<>> THEN best
  ELSE MaxKey_last(IF counts[Head(keys)] >= counts[best] THEN Head(keys) ELSE best,
                   Tail(keys), counts)

\* max(keys, key=counts.get): the first key, in the dict's order, whose count
\* no other key's count exceeds.
RECURSIVE MaxKey(_, _, _)
MaxKey(best, keys, counts) ==
  IF keys = <<>> THEN best
  ELSE MaxKey(IF counts[Head(keys)] > counts[best] THEN Head(keys) ELSE best,
              Tail(keys), counts)

\* Magazine.top_publisher
Magazine_top_publisher ==
  IF Article_all = <<>> THEN Return(None)
  ELSE LET t == Tally([m \in Range(all_magazines) |-> 0],
                      [k \in 1..Len(Article_all) |-> articles[Article_all[k]].magazine.id])
       IN IF t.exc # "" THEN Raise(t.exc)
          ELSE Return(Ref("Magazine", MaxKey(Head(all_magazines), Tail(all_magazines),
                                             t.counts)))

Query(name, self, result) ==
  /\ ret' = result
  /\ op' = Call(name, self, <<>>)
  /\ UNCHANGED state

AuthorArticles ==
  \E self \in AuthorRefs : Query("Author.articles", self, Return(List(Author_articles(self))))

AuthorMagazines ==
  \E self \in AuthorRefs : \E l \in Author_magazines(self) :
    Query("Author.magazines", self, Return(List(l)))

AuthorTopicAreas ==
  \E self \in AuthorRefs : \E r \in Author_topic_areas(self) :
    Query("Author.topic_areas", self, Return(r))

MagazineArticles ==
  \E self \in MagazineRefs :
    Query("Magazine.articles", self, Return(List(Magazine_articles(self))))

MagazineContributors ==
  \E self \in MagazineRefs : \E l \in Magazine_contributors(self) :
    Query("Magazine.contributors", self, Return(List(l)))

MagazineArticleTitles ==
  \E self \in MagazineRefs :
    Query("Magazine.article_titles", self, Return(Magazine_article_titles(self)))

MagazineContributingAuthors ==
  \E self \in MagazineRefs : \E r \in Magazine_contributing_authors(self) :
    Query("Magazine.contributing_authors", self, Return(r))

TopPublisher == Query("Magazine.top_publisher", None, Magazine_top_publisher)

----------------------------------------------------------------------------
Next ==
  \/ NewAuthor
  \/ NewMagazine
  \/ NewArticle
  \/ AddArticle
  \/ SetAuthorName
  \/ SetMagazineName
  \/ SetMagazineCategory
  \/ AuthorArticles
  \/ AuthorMagazines
  \/ AuthorTopicAreas
  \/ MagazineArticles
  \/ MagazineContributors
  \/ MagazineArticleTitles
  \/ MagazineContributingAuthors
  \/ TopPublisher

Spec == Init /\ [][Next]_vars

----------------------------------------------------------------------------
\* Vocabulary of the properties, stated without the operators above.

IsPrefix(s, t) == Len(s) <= Len(t) /\ SubSeq(t, 1, Len(s)) = s

NoDuplicates(s) == \A i, j \in 1..Len(s) : s[i] = s[j] => i = j

Occurrences(s, x) == Cardinality({i \in 1..Len(s) : s[i] = x})

IsArticleCall(c) == c.name \in {"Article", "add_article"}
CallAuthor(c) == IF c.name = "Article" THEN c.args[1] ELSE c.self
CallMagazine(c) == IF c.name = "Article" THEN c.args[2] ELSE c.args[1]
CallTitle(c) == IF c.name = "Article" THEN c.args[3] ELSE c.args[2]

ValidArticleCall(c) ==
  /\ CallAuthor(c).type = "Author"
  /\ CallMagazine(c).type = "Magazine"
  /\ CallTitle(c).type = "str"
  /\ Len(CallTitle(c).str) \in 5..50

ValidName(v) == v.type = "str" /\ Len(v.str) \in 2..16

\* A character that is whitespace: a control or separator character that
\* str.isspace() accepts.
IsSpace(c) ==
  \/ 9 <= c /\ c <= 13
  \/ 28 <= c /\ c <= 32
  \/ c = 133 \/ c = 160 \/ c = 5760
  \/ 8192 <= c /\ c <= 8202
  \/ c = 8232 \/ c = 8233 \/ c = 8239 \/ c = 8287 \/ c = 12288

ValidCategory(v) == v.type = "str" /\ \E i \in 1..Len(v.str) : ~IsSpace(v.str[i])

QueryNames ==
  {"Author.articles", "Author.magazines", "Author.topic_areas", "Magazine.articles",
   "Magazine.contributors", "Magazine.article_titles", "Magazine.contributing_authors",
   "Magazine.top_publisher"}

\* The articles in the order of their construction.
Constructed == [i \in 1..Len(articles) |-> i]

\* How many registered articles magazine m holds, and how many of them are by a.
ArticlesIn(m) ==
  Cardinality({k \in 1..Len(Article_all) : articles[Article_all[k]].magazine = m})
ArticlesInBy(m, a) ==
  Cardinality({k \in 1..Len(Article_all) :
                 /\ articles[Article_all[k]].magazine = m
                 /\ articles[Article_all[k]].author = a})

Position(s, x) == CHOOSE i \in 1..Len(s) : s[i] = x

----------------------------------------------------------------------------
\* C1: a call Article(a, m, title) or a.add_article(m, title) with an Author,
\* a Magazine and a str title of 5 to 50 characters succeeds; the new article
\* becomes the last element of Article.all, occurs in it once, and the
\* elements before it are as they were.
C1_ValidArticleIsAppended ==
  [][(IsArticleCall(op') /\ ValidArticleCall(op')) =>
       /\ ret'.exc = ""
       /\ ret'.value.type = "Article"
       /\ Article_all' = Append(Article_all, ret'.value.id)
       /\ Occurrences(Article_all', ret'.value.id) = 1
       /\ articles'[ret'.value.id] =
            [author |-> CallAuthor(op'), magazine |-> CallMagazine(op'),
             title |-> CallTitle(op')]]_vars

C1_Witness ==
  /\ op.name = "add_article"
  /\ ret.exc = ""
  /\ Len(Article_all) >= 2
  /\ Article_all[Len(Article_all)] = ret.value.id
  /\ Len(op.args[2].str) = 50

\* C2: a rejected Article construction (author not an Author, magazine not a
\* Magazine, title not a str of 5 to 50 characters), direct or through
\* add_article, raises ValueError and leaves both registries, and every
\* object, as they were.
C2_RejectedArticleLeavesNoTrace ==
  [][(IsArticleCall(op') /\ ~ValidArticleCall(op')) =>
       /\ ret'.exc = "ValueError"
       /\ Article_all' = Article_all
       /\ all_magazines' = all_magazines
       /\ articles' = articles]_vars

C2_Witness ==
  /\ op.name = "add_article"
  /\ ret.exc = "ValueError"
  /\ op.args[2].type = "str"
  /\ Len(op.args[2].str) = 51
  /\ Len(Article_all) >= 2

\* C3: an author's name never changes after construction, and every
\* assignment to author.name raises an error and changes nothing.
C3_AuthorNameIsWriteOnce ==
  [][/\ Len(authors') >= Len(authors)
     /\ \A i \in 1..Len(authors) : authors'[i]._name = authors[i]._name
     /\ op'.name = "Author.name=" =>
          /\ ret'.exc = "AttributeError"
          /\ UNCHANGED state]_vars

C3_Witness ==
  /\ op.name = "Author.name="
  /\ ret.exc = "AttributeError"
  /\ authors[op.self.id]._name # op.args[1]
  /\ Len(Article_all) >= 1

\* C4: every registered magazine has a name of 2 to 16 characters and a
\* category that is not empty once its surrounding whitespace is removed.
C4_RegisteredMagazinesAreValid ==
  \A m \in Range(all_magazines) :
    ValidName(magazines[m]._name) /\ ValidCategory(magazines[m]._category)

\* C5: an assignment to magazine.name of anything but a str of 2 to 16
\* characters, or to magazine.category of anything but a str with a
\* non-whitespace character, raises ValueError and changes nothing; an
\* accepted assignment changes that field of that magazine and nothing else.
C5_MagazineSetters ==
  [][/\ op'.name = "Magazine.name=" =>
          IF ValidName(op'.args[1])
          THEN /\ ret'.exc = ""
               /\ magazines' = [magazines EXCEPT ![op'.self.id]._name = op'.args[1]]
               /\ UNCHANGED <<authors, articles, Article_all, all_magazines>>
          ELSE /\ ret'.exc = "ValueError"
               /\ UNCHANGED state
     /\ op'.name = "Magazine.category=" =>
          IF ValidCategory(op'.args[1])
          THEN /\ ret'.exc = ""
               /\ magazines' = [magazines EXCEPT ![op'.self.id]._category = op'.args[1]]
               /\ UNCHANGED <<authors, articles, Article_all, all_magazines>>
          ELSE /\ ret'.exc = "ValueError"
               /\ UNCHANGED state]_vars

C5_Witness ==
  /\ op.name = "Magazine.name="
  /\ ret.exc = "ValueError"
  /\ op.args[1].type = "str"
  /\ Len(op.args[1].str) = 1
  /\ Len(magazines[op.self.id]._name.str) = 2
  /\ magazines[op.self.id]._category = Str(PaddedHealth)

\* C6: a.articles() is the list of the articles constructed with author a, in
\* the order of their construction, and holds no other author's article.
C6_AuthorArticles ==
  /\ \A a \in AuthorRefs :
       Author_articles(a) =
         Refs("Article", SelectSeq(Constructed, LAMBDA i : articles[i].author = a))
  /\ op.name = "Author.articles" =>
       /\ ret.exc = ""
       /\ ret.value.type = "list"
       /\ \A k \in 1..Len(ret.value.items) :
            articles[ret.value.items[k].id].author = op.self
       /\ \A i \in 1..Len(articles) :
            articles[i].author = op.self => Ref("Article", i) \in Range(ret.value.items)
       /\ \A j, k \in 1..Len(ret.value.items) :
            j < k => ret.value.items[j].id < ret.value.items[k].id

C6_Witness ==
  /\ op.name = "Author.articles"
  /\ Len(ret.value.items) >= 2
  /\ \E i \in 1..Len(articles) :
       /\ articles[i].author # op.self
       /\ i < ret.value.items[Len(ret.value.items)].id

\* C7: m.contributing_authors() lists, once each, exactly the authors with 3
\* or more registered articles in m, and is None exactly when there is none.
C7_ContributingAuthors ==
  /\ \A m \in MagazineRefs : \A r \in Magazine_contributing_authors(m) :
       LET frequent == {a \in AuthorRefs : ArticlesInBy(m, a) >= 3}
       IN IF frequent = {}
          THEN r = None
          ELSE /\ r.type = "list"
               /\ Range(r.items) = frequent
               /\ Len(r.items) = Cardinality(frequent)
  /\ op.name = "Magazine.contributing_authors" =>
       /\ ret.exc = ""
       /\ ret.value \in Magazine_contributing_authors(op.self)

C7_Witness ==
  /\ op.name = "Magazine.contributing_authors"
  /\ ret.value.type = "list"
  /\ \E a \in AuthorRefs : ArticlesInBy(op.self, a) = 3 /\ ret.value.items = <<a>>
  /\ \E a \in AuthorRefs : ArticlesInBy(op.self, a) = 0

\* C8: Magazine.top_publisher() is None exactly when Article.all is empty;
\* otherwise it is a registered magazine with the greatest number of
\* registered articles, the earliest registered of those.
C8_TopPublisher ==
  LET r == Magazine_top_publisher
  IN /\ r.exc = ""
     /\ r.value = None <=> Article_all = <<>>
     /\ Article_all # <<>> =>
          /\ r.value.type = "Magazine"
          /\ r.value.id \in Range(all_magazines)
          /\ \A m \in Range(all_magazines) :
               /\ ArticlesIn(Ref("Magazine", m)) <= ArticlesIn(r.value)
               /\ ArticlesIn(Ref("Magazine", m)) = ArticlesIn(r.value) =>
                    Position(all_magazines, r.value.id) <= Position(all_magazines, m)
     /\ op.name = "Magazine.top_publisher" => ret = r

C8_Witness ==
  /\ op.name = "Magazine.top_publisher"
  /\ ret.value.type = "Magazine"
  /\ \E m \in MagazineRefs :
       /\ m # ret.value
       /\ ArticlesIn(m) = ArticlesIn(ret.value)
       /\ articles[Article_all[1]].magazine = m

\* C9: each registry only grows at its end: across every operation the old
\* registry is a prefix of the new one, no entry occurs twice, and a query
\* leaves both registries as they were.
C9_RegistriesAreAppendOnly ==
  [][/\ IsPrefix(Article_all, Article_all')
     /\ IsPrefix(all_magazines, all_magazines')
     /\ NoDuplicates(Article_all')
     /\ NoDuplicates(all_magazines')
     /\ op'.name \in QueryNames => UNCHANGED <<Article_all, all_magazines>>]_vars

C9_Witness ==
  /\ op.name = "Magazine.article_titles"
  /\ ret.value.type = "list"
  /\ Len(Article_all) = MaxArticles
  /\ Len(all_magazines) = MaxMagazines

\* C10: the magazine of every registered article is a registered magazine, so
\* the counting loop of Magazine.top_publisher() meets no missing key and
\* the call raises nothing.
C10_ArticleMagazinesAreRegistered ==
  /\ \A i \in Range(Article_all) :
       /\ articles[i].magazine.type = "Magazine"
       /\ articles[i].magazine.id \in Range(all_magazines)
  /\ Magazine_top_publisher.exc = ""
  /\ op.name = "Magazine.top_publisher" => ret.exc = ""

C10_Witness ==
  /\ op.name = "Magazine.top_publisher"
  /\ ret.exc = ""
  /\ ret.value = Ref("Magazine", 2)
  /\ ArticlesIn(Ref("Magazine", 1)) = 1
  /\ Len(magazines[1]._name.str) = 2
====
